---- MODULE Spec2Model ----
(***************************************************************************)
(* glucometerutils: the command-line program glucometer.py (main) and the  *)
(* reading data model of glucometerutils/common.py.                        *)
(*                                                                         *)
(* Representation.  A Python string is a sequence of one-character         *)
(* strings, so that lower() and startswith() are computed.  A number is an *)
(* integer count of hundredths (100 mg/dL is 10000, 5.56 mmol/L is 556).   *)
(* An enum member is the record [cls |-> <enum class>, value |-> <value>]  *)
(* and a plain str used in its place is [cls |-> "str", value |-> <text>]: *)
(* the two are different values, as Enum.__eq__ makes them in Python.      *)
(* A timestamp is a count of clock ticks, TicksPerMinute of them a minute. *)
(***************************************************************************)
EXTENDS Integers, Sequences, FiniteSets

VARIABLES
    \* ---- one run of glucometer.py ----
    args,       \* the argparse namespace
    env,        \* what the run finds: driver importable, dateutil, native unit
    pc,         \* position in main
    clock,      \* datetime.datetime.now()
    calls,      \* the device methods called so far, in order
    datalog,    \* the meter's data log: "intact" or "zeroed"
    result,     \* how main ended: "running", "0", "1", "None", "raised"
    exitcode,   \* the process exit code, -1 while the process runs
    stdout,     \* the lines printed
    logged,     \* the logging.error messages
    unit,       \* main's local `unit`
    readings,   \* main's local `readings`, once sorted
    outfile,    \* the rows written to the export file
    tested,     \* history: every reading the future filter examined, with now()
    t0,         \* history: now() when the export file was opened, -1 before
    reply,      \* what the user typed at the confirmation prompt
    raised,     \* history: the exception that left main, [call, exc]
    devReadings,\* history: the sequence get_readings() returned
    completed,  \* history: the chosen action ran to its end without error
    \* ---- the reading data model applied to drawn inputs ----
    fp,         \* binary floating point: TRUE when the double nearest a decimal
                \* tie lies above it (round() then goes up)
    rd,         \* a reading drawn from the input sets
    runit,      \* the unit handed to as_tsv
    row,        \* as_tsv's result, <<>> before the call
    cv          \* convert_glucose_unit round trip: [x, from, to, there, back, step]

vars == <<args, env, pc, clock, calls, datalog, result, exitcode, stdout, logged,
          unit, readings, outfile, tested, t0, reply, raised, devReadings, completed, fp, rd, runit, row, cv>>

cliVars == <<args, env, pc, clock, calls, datalog, result, exitcode, stdout, logged,
             unit, readings, outfile, tested, t0, reply, raised, devReadings, completed>>

readingVars == <<rd, runit, row>>

(***************************************************************************)
(* Bounds of the model.                                                    *)
(***************************************************************************)
MaxReadings == 2        \* readings a device returns
MaxTs == 2              \* timestamps are 1..MaxTs
MaxClock == 2           \* the clock runs over 0..MaxClock
MaxMgdl == 60           \* whole mg/dL values 0..MaxMgdl of the round trip
MaxMmol == 110          \* mmol/L values 0.00..MaxMmol/100 of the round trip
TicksPerMinute == 2     \* clock ticks in a minute

(***************************************************************************)
(* Python strings.                                                         *)
(***************************************************************************)
S_Sensor == <<"(", "S", "e", "n", "s", "o", "r", ")">>
S_Scan == <<"(", "S", "c", "a", "n", ")">>
S_Blood == <<"(", "B", "l", "o", "o", "d", ")">>
S_foo == <<" ", "f", "o", "o">>
S_empty == <<>>

\* str.startswith
StartsWith(s, prefix) ==
    /\ Len(s) >= Len(prefix)
    /\ SubSeq(s, 1, Len(prefix)) = prefix

LowerChar(c) ==
    CASE c = "Y" -> "y"
      [] c = "E" -> "e"
      [] c = "S" -> "s"
      [] c = "N" -> "n"
      [] c = "O" -> "o"
      [] OTHER -> c

\* str.lower
Lower(s) == [i \in 1..Len(s) |-> LowerChar(s[i])]

Digit(d) == <<"0", "1", "2", "3", "4", "5", "6", "7", "8", "9">>[d + 1]

RECURSIVE DecStr(_)
\* str(n) of a natural number
DecStr(n) == IF n < 10 THEN <<Digit(n)>> ELSE DecStr(n \div 10) \o <<Digit(n % 10)>>

\* str(x) of a non-negative float held in hundredths: the shortest text that
\* reads back as x, with at least one decimal
StrFloat(h) ==
    DecStr(h \div 100) \o <<".">> \o
        (IF h % 10 = 0 THEN <<Digit((h % 100) \div 10)>>
         ELSE <<Digit((h % 100) \div 10), Digit(h % 10)>>)

\* "%.2f" % x
Fmt2f(h) == DecStr(h \div 100) \o <<".">> \o <<Digit((h % 100) \div 10), Digit(h % 10)>>

\* str(timestamp): the timestamp at full resolution
StrTimestamp(ts) == DecStr(ts)

\* '{:%Y/%m/%d %H:%M}'.format(timestamp): the timestamp cut to its minute
FmtMinute(ts) == DecStr(ts \div TicksPerMinute)

(***************************************************************************)
(* round().  n/d is rounded to the nearest integer.  A tie that the double *)
(* holds exactly goes to the even neighbour; a decimal tie the double      *)
(* cannot hold goes where the representation error points (fp).            *)
(***************************************************************************)
PyRound(n, d, exact) ==
    LET q == n \div d
        r == n % d
    IN  IF 2 * r < d THEN q
        ELSE IF 2 * r > d THEN q + 1
        ELSE IF exact THEN (IF q % 2 = 0 THEN q ELSE q + 1)
        ELSE (IF fp THEN q + 1 ELSE q)

\* round(x, 1) of x in hundredths, result in hundredths; x.25 and x.75 are
\* the ties a double holds exactly
Round1(h) == 10 * PyRound(h, 10, h % 100 \in {25, 75})

(***************************************************************************)
(* common.py                                                               *)
(***************************************************************************)
Str(text) == [cls |-> "str", value |-> text]

MG_DL == [cls |-> "Unit", value |-> "mg/dL"]
MMOL_L == [cls |-> "Unit", value |-> "mmol/L"]

BLOOD_SAMPLE == [cls |-> "MeasurementMethod", value |-> "blood sample"]
CGM == [cls |-> "MeasurementMethod", value |-> "CGM"]

Meal_NONE == [cls |-> "Meal", value |-> ""]

\* Unit(x): the member itself, or the member whose value is the str x
Unit(x) == IF x.cls = "Unit" THEN x ELSE [cls |-> "Unit", value |-> x.value]

\* the conversion with mmol/L kept to one decimal only
convert_glucose_unit_one_decimal(value, from_unit, to_unit) ==
    IF Unit(from_unit) = Unit(to_unit) THEN value
    ELSE IF Unit(from_unit) = MG_DL
         THEN 10 * PyRound(value, 180, FALSE)
         ELSE 100 * PyRound(value * 18, 100, TRUE)

convert_glucose_unit(value, from_unit, to_unit) ==
    IF Unit(from_unit) = Unit(to_unit) THEN value
    ELSE IF Unit(from_unit) = MG_DL
         THEN PyRound(value, 18, FALSE)               \* round(value / 18.0, 2)
         ELSE 100 * PyRound(value * 18, 100, TRUE)    \* round(value * 18.0, 0)

GlucoseReading(timestamp, value, comment, measure_method) ==
    [cls |-> "GlucoseReading", timestamp |-> timestamp, value |-> value,
     comment |-> comment, measure_method |-> measure_method, meal |-> Meal_NONE]

KetoneReading(timestamp, value, comment) ==
    [cls |-> "KetoneReading", timestamp |-> timestamp, value |-> value,
     comment |-> comment, measure_method |-> BLOOD_SAMPLE, meal |-> Meal_NONE]

\* GlucoseReading.get_value_as / KetoneReading.get_value_as
get_value_as(self, to_unit) ==
    IF self.cls = "KetoneReading" THEN self.value
    ELSE convert_glucose_unit(self.value, MG_DL, to_unit)

\* GlucoseReading._get_libre_type: measure_method is compared with str literals
_get_libre_type(self) ==
    IF self.measure_method = Str("CGM")
    THEN IF StartsWith(self.comment, S_Sensor) THEN <<"0">>
         ELSE IF StartsWith(self.comment, S_Scan) THEN <<"1">>
         ELSE <<"-", "1">>
    ELSE IF self.measure_method = Str("blood sample")
    THEN IF StartsWith(self.comment, S_Blood) THEN <<"2">> ELSE <<"-", "1">>
    ELSE <<"-", "1">>

libre_glucose(self, u) == StrFloat(Round1(get_value_as(self, u)))

\* the historic column filled for every CGM record type
_get_libre_historic_glucose_any_cgm(self, u) ==
    IF _get_libre_type(self) \in {<<"0">>, <<"1">>} THEN libre_glucose(self, u) ELSE <<>>

_get_libre_historic_glucose(self, u) ==
    IF _get_libre_type(self) = <<"0">> THEN libre_glucose(self, u) ELSE <<>>

_get_libre_scan_glucose(self, u) ==
    IF _get_libre_type(self) = <<"1">> THEN libre_glucose(self, u) ELSE <<>>

_get_libre_strip_glucose(self, u) ==
    IF _get_libre_type(self) = <<"2">> THEN libre_glucose(self, u) ELSE <<>>

Blanks(n) == [i \in 1..n |-> <<>>]

\* as_tsv: the row split at its tabs.  Fields 1..4 are Time, Record Type,
\* Historic Glucose, Scan Glucose; field 12 is Strip Glucose and field 13 Ketone.
as_tsv(self, u) ==
    IF self.cls = "KetoneReading"
    THEN <<FmtMinute(self.timestamp), <<"3">>>> \o Blanks(10)
             \o <<StrFloat(get_value_as(self, u))>> \o Blanks(6)
    ELSE <<FmtMinute(self.timestamp), _get_libre_type(self),
           _get_libre_historic_glucose(self, u), _get_libre_scan_glucose(self, u)>>
             \o Blanks(7) \o <<_get_libre_strip_glucose(self, u)>> \o Blanks(7)

\* as_csv: the quoted fields in order
as_csv(self, u) ==
    IF self.cls = "KetoneReading"
    THEN <<StrTimestamp(self.timestamp), Fmt2f(get_value_as(self, u)),
           self.measure_method.value, self.comment>>
    ELSE <<StrTimestamp(self.timestamp), Fmt2f(get_value_as(self, u)),
           self.meal.value, self.measure_method.value, self.comment>>

(***************************************************************************)
(* glucometer.py: the inputs of a run.                                     *)
(***************************************************************************)
NoneV == [cls |-> "NoneType", value |-> "None"]

\* common.VALID_UNITS and common.UNIT_MMOLL: main reads both names, and
\* common.py defines neither; they are the unit labels, as str
VALID_UNITS == {Str("mg/dL"), Str("mmol/L")}

UNIT_MMOLL == Str("mmol/L")

Actions == {"help", "info", "zero", "dump", "datetime", "None"}

\* --set: absent, 'now' (the flag alone), a text dateutil parses, a text it
\* rejects, the empty text
SetValues == {"None", "now", "date", "garbage", ""}

NoDumpFlags == [unit |-> NoneV, sort_by |-> "timestamp", with_ketone |-> FALSE, to_file |-> FALSE]

DumpFlags ==
    [unit : {NoneV} \cup VALID_UNITS, sort_by : {"timestamp", "value"},
     with_ketone : BOOLEAN, to_file : BOOLEAN]

\* The namespace parse_args returns: a subcommand's options exist only with it.
ArgsSet ==
    {[action |-> a, set |-> "None", dump |-> NoDumpFlags] : a \in Actions \ {"dump", "datetime"}}
    \cup {[action |-> "dump", set |-> "None", dump |-> d] : d \in DumpFlags}
    \cup {[action |-> "datetime", set |-> v, dump |-> NoDumpFlags] : v \in SetValues}

\* What the run finds outside it.  dateutil is looked for by datetime --set
\* only, the native unit is read by dump only.
EnvSet(a) ==
    [driver : BOOLEAN,
     dateutil : IF a.action = "datetime" THEN BOOLEAN ELSE {TRUE},
     native_unit : IF a.action = "dump" THEN {MG_DL, MMOL_L} ELSE {MG_DL}]

\* The readings a driver builds: glucose readings of 100 mg/dL and ketone
\* readings of 0.5 mmol/L, with measure_method a MeasurementMethod member.
DeviceReadings ==
    {GlucoseReading(ts, 10000, S_Sensor \o S_foo, CGM) : ts \in 1..MaxTs}
    \cup {KetoneReading(ts, 50, S_empty) : ts \in 1..MaxTs}

SeqsUpTo(S, n) == UNION {[1..k -> S] : k \in 0..n}

\* How a device call ends: it returns, raises exceptions.Error, or raises
\* NotImplementedError.
Outcomes == {"ok", "Error", "NotImplementedError"}

\* What the user may type at the prompt.
Replies ==
    {<<"y">>, <<"Y">>, <<"y", "e">>, <<"Y", "e", "s">>, <<"Y", "E", "S">>, <<"y", "e", "s">>,
     <<>>, <<"n">>, <<"N", "o">>, <<"y", "e", "s", " ">>, <<"y", "e", "s", "s">>}

(***************************************************************************)
(* glucometer.py: helpers of main.                                         *)
(***************************************************************************)
Line(tag, fields) == [tag |-> tag, action |-> args.action, fields |-> fields]

\* the unit as the code had it before the override: --unit, else the native unit
DumpUnit_from_args(a, native_unit) == IF a.dump.unit = NoneV THEN native_unit ELSE a.dump.unit

\* unit = common.UNIT_MMOLL; if unit is None: unit = device_info.native_unit
DumpUnit(a, native_unit) == IF UNIT_MMOLL = NoneV THEN native_unit ELSE UNIT_MMOLL

IsKetone(reading) == reading.cls = "KetoneReading"

NotKetone(reading) == ~IsKetone(reading)

\* nothing filtered out
FilterKetone_keep_all(rs, with_ketone) == rs

\* if not args.with_ketone: readings without the KetoneReading instances
FilterKetone(rs, with_ketone) == IF with_ketone THEN rs ELSE SelectSeq(rs, NotKetone)

Key(reading, field) == IF field = "timestamp" THEN reading.timestamp ELSE reading.value

\* x put behind every element whose key is not greater than its own
InsertByKey(s, x, field) ==
    LET before == {i \in 1..Len(s) : Key(s[i], field) <= Key(x, field)}
        n == IF before = {} THEN 0 ELSE CHOOSE i \in before : \A j \in before : j <= i
    IN  SubSeq(s, 1, n) \o <<x>> \o SubSeq(s, n + 1, Len(s))

RECURSIVE SortedBy(_, _)
\* sorted(readings, key=lambda reading: getattr(reading, args.sort_by)): stable
SortedBy(rs, field) ==
    IF rs = <<>> THEN <<>>
    ELSE InsertByKey(SortedBy(SubSeq(rs, 1, Len(rs) - 1), field), rs[Len(rs)], field)

\* the filter with the comparison turned into >=
InFuture_or_now(reading, now) == reading.timestamp >= now

\* reading.timestamp > datetime.datetime.now()
InFuture(reading, now) == reading.timestamp > now

\* str(rowid) + "\t" + reading.as_tsv(unit)
FileRow(rowid, reading, u) == <<DecStr(rowid)>> \o as_tsv(reading, u)

\* any reply that begins with y
Confirmed_prefix(text) == StartsWith(Lower(text), <<"y">>)

\* confirm.lower() in ['y', 'ye', 'yes']
Confirmed(text) == Lower(text) \in {<<"y">>, <<"y", "e">>, <<"y", "e", "s">>}

\* an exception leaves main
Propagate(call, exc) ==
    /\ result' = "raised"
    /\ raised' = [call |-> call, exc |-> exc]
    /\ pc' = "returned"

\* except exceptions.Error as err: print(...); return 1
CatchError ==
    /\ stdout' = Append(stdout, Line("error", <<>>))
    /\ result' = "1"
    /\ pc' = "returned"

(***************************************************************************)
(* The state after construction.                                           *)
(***************************************************************************)
NoFile == [open |-> FALSE, header |-> FALSE, rows |-> <<>>, closed |-> FALSE]

NoReading == GlucoseReading(0, 0, S_empty, BLOOD_SAMPLE)

NoConversion == [x |-> 0, from |-> MG_DL, to |-> MG_DL, there |-> 0, back |-> 0, step |-> 2]

CliIdle ==
    /\ pc = "exited"
    /\ args = [action |-> "None", set |-> "None", dump |-> NoDumpFlags]
    /\ env = [driver |-> TRUE, dateutil |-> TRUE, native_unit |-> MG_DL]
    /\ clock = 0 /\ calls = <<>> /\ datalog = "intact" /\ result = "None"
    /\ exitcode = 0 /\ stdout = <<>> /\ logged = <<>> /\ unit = NoneV
    /\ readings = <<>> /\ outfile = NoFile /\ tested = <<>> /\ t0 = -1
    /\ reply = <<>> /\ raised = [call |-> "-", exc |-> "-"]
    /\ devReadings = <<>> /\ completed = FALSE

PureIdle ==
    /\ fp = FALSE /\ rd = NoReading /\ runit = MMOL_L /\ row = <<>> /\ cv = NoConversion

\* A run of glucometer.py about to enter main.
Init ==
    /\ args \in ArgsSet
    /\ env \in EnvSet(args)
    /\ pc = "start"
    /\ clock = 0 /\ calls = <<>> /\ datalog = "intact" /\ result = "running"
    /\ exitcode = -1 /\ stdout = <<>> /\ logged = <<>> /\ unit = NoneV
    /\ readings = <<>> /\ outfile = NoFile /\ tested = <<>> /\ t0 = -1
    /\ reply = <<>> /\ raised = [call |-> "-", exc |-> "-"]
    /\ devReadings = <<>> /\ completed = FALSE
    /\ PureIdle

(***************************************************************************)
(* main, step by step.  A step ends where the run meets its surroundings:  *)
(* a device call returns or raises, the user answers, the clock is read.   *)
(***************************************************************************)
keepDevice == UNCHANGED <<args, env, clock, datalog, exitcode, reply, fp, rd, runit, row, cv>>

keepDump == UNCHANGED <<unit, readings, outfile, tested, t0, devReadings>>

\* lines 80-86: importlib.import_module
ImportDriver ==
    /\ pc = "start"
    /\ IF env.driver
       THEN /\ pc' = "imported"
            /\ UNCHANGED <<logged, result>>
       ELSE /\ logged' = Append(logged, "Error importing driver")
            /\ result' = "1"
            /\ pc' = "returned"
    /\ keepDevice /\ keepDump
    /\ UNCHANGED <<calls, stdout, raised, completed>>

\* lines 90-92: the help action needs no device
Help ==
    /\ pc = "imported"
    /\ args.action = "help"
    /\ stdout' = Append(stdout, Line("doc", <<>>))
    /\ result' = "0"
    /\ pc' = "returned"
    /\ keepDevice /\ keepDump
    /\ UNCHANGED <<calls, logged, raised, completed>>

\* lines 94-96: driver.Device(args.device); device.connect()
Connect ==
    /\ pc = "imported"
    /\ args.action # "help"
    /\ calls' = Append(calls, "connect")
    /\ \E o \in Outcomes :
          IF o = "ok"
          THEN pc' = "meter_info" /\ UNCHANGED <<result, raised>>
          ELSE Propagate("connect", o)
    /\ keepDevice /\ keepDump
    /\ UNCHANGED <<stdout, logged, completed>>

\* line 97: device_info = device.get_meter_info()
GetMeterInfo ==
    /\ pc = "meter_info"
    /\ calls' = Append(calls, "get_meter_info")
    /\ \E o \in Outcomes :
          IF o = "ok"
          THEN pc' = "action" /\ UNCHANGED <<result, raised>>
          ELSE Propagate("get_meter_info", o)
    /\ keepDevice /\ keepDump
    /\ UNCHANGED <<stdout, logged, completed>>

\* lines 100-106: info; a meter without a clock shows N/A
Info ==
    /\ pc = "action"
    /\ args.action = "info"
    /\ calls' = Append(calls, "get_datetime")
    /\ \E o \in Outcomes :
          IF o = "Error"
          THEN CatchError /\ UNCHANGED <<raised, completed>>
          ELSE /\ stdout' = Append(stdout, Line(IF o = "ok" THEN "info" ELSE "info N/A", <<>>))
               /\ completed' = TRUE
               /\ pc' = "disconnect"
               /\ UNCHANGED <<result, raised>>
    /\ keepDevice /\ keepDump
    /\ UNCHANGED logged

\* lines 107-120, then 122-133 (the export file is opened) or 143-145 (the
\* readings are printed)
DumpStart ==
    /\ pc = "action"
    /\ args.action = "dump"
    /\ unit' = DumpUnit(args, env.native_unit)
    /\ calls' = Append(calls, "get_readings")
    /\ \E o \in Outcomes :
          CASE o = "Error" ->
                 /\ CatchError
                 /\ UNCHANGED <<readings, outfile, t0, devReadings, raised, completed>>
            [] o = "NotImplementedError" ->
                 /\ Propagate("get_readings", o)
                 /\ UNCHANGED <<readings, outfile, t0, devReadings, stdout, completed>>
            [] OTHER ->
                 \E rs \in SeqsUpTo(DeviceReadings, MaxReadings) :
                    /\ devReadings' = rs
                    /\ readings' = SortedBy(FilterKetone(rs, args.dump.with_ketone),
                                            args.dump.sort_by)
                    /\ IF args.dump.to_file
                       THEN /\ t0' = clock
                            /\ outfile' = [open |-> TRUE, header |-> TRUE,
                                           rows |-> <<>>, closed |-> FALSE]
                            /\ pc' = "dump_rows"
                            /\ UNCHANGED <<stdout, completed>>
                       ELSE /\ stdout' = stdout \o
                                   [i \in 1..Len(readings') |->
                                       Line("csv", as_csv(readings'[i], unit'))]
                            /\ completed' = TRUE
                            /\ pc' = "disconnect"
                            /\ UNCHANGED <<outfile, t0>>
                    /\ UNCHANGED <<result, raised>>
    /\ keepDevice
    /\ UNCHANGED <<logged, tested>>

\* lines 124-125 and 136-140: the next reading passes the future filter, which
\* reads the clock then, and is written unless it lies in the future
DumpWriteRow ==
    /\ pc = "dump_rows"
    /\ Len(tested) < Len(readings)
    /\ LET reading == readings[Len(tested) + 1]
       IN  /\ tested' = Append(tested, [r |-> reading, now |-> clock])
           /\ outfile' = IF InFuture(reading, clock) THEN outfile
                         ELSE [outfile EXCEPT !.rows =
                                  Append(@, FileRow(Len(@) + 1, reading, unit))]
    /\ keepDevice
    /\ UNCHANGED <<pc, calls, result, stdout, logged, unit, readings, t0,
                   raised, devReadings, completed>>

\* lines 141-142: outputfile.close(); os.chmod
DumpClose ==
    /\ pc = "dump_rows"
    /\ Len(tested) = Len(readings)
    /\ outfile' = [outfile EXCEPT !.closed = TRUE]
    /\ completed' = TRUE
    /\ pc' = "disconnect"
    /\ keepDevice
    /\ UNCHANGED <<calls, result, stdout, logged, unit, readings, tested, t0,
                   raised, devReadings>>

\* Time passes.  Only the export reads the clock, so its advance is followed
\* from the start of an exporting dump to the last row.
Tick ==
    /\ pc \in {"action", "dump_rows"}
    /\ args.action = "dump" /\ args.dump.to_file
    /\ clock < MaxClock
    /\ clock' = clock + 1
    /\ UNCHANGED <<args, env, pc, calls, datalog, result, exitcode, stdout, logged,
                   unit, readings, outfile, tested, t0, reply, raised, devReadings,
                   completed, fp, rd, runit, row, cv>>

\* lines 146-162: datetime
Datetime ==
    /\ pc = "action"
    /\ args.action = "datetime"
    /\ IF args.set \in {"date", "garbage"} /\ (~env.dateutil \/ args.set = "garbage")
       THEN \* ImportError or ValueError: logging.error; return 1
            /\ logged' = Append(logged, IF ~env.dateutil THEN "Unable to import dateutil"
                                        ELSE "not a valid date")
            /\ result' = "1"
            /\ pc' = "returned"
            /\ UNCHANGED <<calls, stdout, raised, completed>>
       ELSE LET call == IF args.set \in {"now", "date"} THEN "set_datetime"
                        ELSE "get_datetime"
            IN  /\ calls' = Append(calls, call)
                /\ \E o \in Outcomes :
                      CASE o = "Error" -> CatchError /\ UNCHANGED <<raised, completed>>
                        [] o = "NotImplementedError" ->
                             Propagate(call, o) /\ UNCHANGED <<stdout, completed>>
                        [] OTHER ->
                             /\ stdout' = Append(stdout, Line(call, <<>>))
                             /\ completed' = TRUE
                             /\ pc' = "disconnect"
                             /\ UNCHANGED <<result, raised>>
                /\ UNCHANGED logged
    /\ keepDevice /\ keepDump

\* lines 163-170: zero asks first
Zero ==
    /\ pc = "action"
    /\ args.action = "zero"
    /\ \E text \in Replies :
          /\ reply' = text
          /\ IF Confirmed(text)
             THEN /\ calls' = Append(calls, "zero_log")
                  /\ \E o \in Outcomes :
                        CASE o = "Error" ->
                               CatchError /\ UNCHANGED <<datalog, raised, completed>>
                          [] o = "NotImplementedError" ->
                               /\ Propagate("zero_log", o)
                               /\ UNCHANGED <<datalog, stdout, completed>>
                          [] OTHER ->
                               /\ datalog' = "zeroed"
                               /\ stdout' = Append(stdout, Line("zeroed", <<>>))
                               /\ completed' = TRUE
                               /\ pc' = "disconnect"
                               /\ UNCHANGED <<result, raised>>
             ELSE /\ stdout' = Append(stdout, Line("not zeroed", <<>>))
                  /\ result' = "1"
                  /\ pc' = "returned"
                  /\ UNCHANGED <<calls, datalog, raised, completed>>
    /\ UNCHANGED <<args, env, clock, exitcode, logged, fp, rd, runit, row, cv>>
    /\ keepDump

\* lines 171-172: no subcommand given
NoAction ==
    /\ pc = "action"
    /\ args.action = "None"
    /\ result' = "1"
    /\ pc' = "returned"
    /\ keepDevice /\ keepDump
    /\ UNCHANGED <<calls, stdout, logged, raised, completed>>

\* main returns without the device told to disconnect
Disconnect_skipped ==
    /\ pc = "disconnect"
    /\ result' = "None"
    /\ pc' = "returned"
    /\ keepDevice /\ keepDump
    /\ UNCHANGED <<calls, stdout, logged, raised, completed>>

\* line 177: device.disconnect(), and main falls off its end
Disconnect ==
    /\ pc = "disconnect"
    /\ calls' = Append(calls, "disconnect")
    /\ \E o \in Outcomes :
          IF o = "ok"
          THEN result' = "None" /\ pc' = "returned" /\ UNCHANGED raised
          ELSE Propagate("disconnect", o)
    /\ keepDevice /\ keepDump
    /\ UNCHANGED <<stdout, logged, completed>>

\* lines 179-180: main() is called and what it returns is dropped; the
\* interpreter exits 0, or 1 when an exception left main
ProcessExit ==
    /\ pc = "returned"
    /\ exitcode' = IF result = "raised" THEN 1 ELSE 0
    /\ pc' = "exited"
    /\ UNCHANGED <<args, env, clock, calls, datalog, result, stdout, logged, unit,
                   readings, outfile, tested, t0, reply, raised, devReadings,
                   completed, fp, rd, runit, row, cv>>

Next ==
    \/ ImportDriver
    \/ Help
    \/ Connect
    \/ GetMeterInfo
    \/ Info
    \/ DumpStart
    \/ DumpWriteRow
    \/ DumpClose
    \/ Tick
    \/ Datetime
    \/ Zero
    \/ NoAction
    \/ Disconnect
    \/ ProcessExit

Spec == Init /\ [][Next]_vars

(***************************************************************************)
(* The reading data model on drawn inputs: as_tsv.                         *)
(***************************************************************************)
\* mg/dL values in hundredths: 0, 0.9 (0.05 mmol/L, a tie no double holds),
\* 4.5 (0.25 mmol/L, a tie a double holds), 8.1, 13.5, 99, 100, 100.5, 180
GlucoseValues == {0, 90, 450, 810, 1350, 9900, 10000, 10050, 18000}

Comments ==
    {S_Sensor \o S_foo, S_Sensor, S_Scan \o S_foo, S_Blood, S_Blood \o S_foo,
     S_empty, S_foo \o S_Sensor, <<"(", "S", "e", "n", "s">>}

\* measure_method: a MeasurementMethod member, or the str the docstring names
Methods == {CGM, BLOOD_SAMPLE, Str("CGM"), Str("blood sample")}

ReadingInputs ==
    {GlucoseReading(ts, v, c, m) : ts \in 1..MaxTs, v \in GlucoseValues, c \in Comments, m \in Methods}

InitReading ==
    /\ CliIdle
    /\ fp \in BOOLEAN
    /\ rd \in ReadingInputs
    /\ runit \in {MG_DL, MMOL_L, Str("mmol/L")}
    /\ row = <<>>
    /\ cv = NoConversion

\* row = rd.as_tsv(runit)
ApplyTsv ==
    /\ row = <<>>
    /\ row' = as_tsv(rd, runit)
    /\ UNCHANGED <<cliVars, fp, rd, runit, cv>>

NextReading == ApplyTsv

SpecReading == InitReading /\ [][NextReading]_vars

(***************************************************************************)
(* The reading data model on drawn inputs: convert_glucose_unit there and  *)
(* back.                                                                   *)
(***************************************************************************)
ConvInputs ==
    {[x |-> 100 * v, from |-> MG_DL, to |-> t, there |-> 0, back |-> 0, step |-> 0] :
        v \in 0..MaxMgdl, t \in {MMOL_L, MG_DL, Str("mmol/L")}}
    \cup {[x |-> w, from |-> MMOL_L, to |-> t, there |-> 0, back |-> 0, step |-> 0] :
        w \in 0..MaxMmol, t \in {MG_DL, MMOL_L, Str("mg/dL")}}

InitConvert ==
    /\ CliIdle
    /\ fp \in BOOLEAN
    /\ rd = NoReading /\ runit = MMOL_L /\ row = <<>>
    /\ cv \in ConvInputs

\* there = convert_glucose_unit(x, from, to)
ConvertThere ==
    /\ cv.step = 0
    /\ cv' = [cv EXCEPT !.there = convert_glucose_unit(cv.x, cv.from, cv.to), !.step = 1]
    /\ UNCHANGED <<cliVars, fp, rd, runit, row>>

\* back = convert_glucose_unit(there, to, from)
ConvertBack ==
    /\ cv.step = 1
    /\ cv' = [cv EXCEPT !.back = convert_glucose_unit(cv.there, cv.to, cv.from), !.step = 2]
    /\ UNCHANGED <<cliVars, fp, rd, runit, row>>

NextConvert == ConvertThere \/ ConvertBack

SpecConvert == InitConvert /\ [][NextConvert]_vars

(***************************************************************************)
(* Properties of a run of glucometer.py.                                   *)
(***************************************************************************)
Printed(tag) == \E i \in 1..Len(stdout) : stdout[i].tag = tag

Count(s, x) == Cardinality({i \in 1..Len(s) : s[i] = x})

HandledError == logged # <<>> \/ Printed("error")

Declined == Printed("not zeroed")

Succeeded == result = "0" \/ (completed /\ result = "None")

Ended == pc \in {"returned", "exited"}

\* C1: a run that ended in a handled error, or with the zero confirmation
\* declined, exits with code 1, and a run whose action completed exits with 0.
C1_ExitCodeReflectsOutcome ==
    pc = "exited" =>
        /\ (HandledError \/ Declined) => exitcode = 1
        /\ Succeeded => exitcode = 0

\* C2: an exceptions.Error raised by any device call of the run is caught in
\* main: it never leaves main, an error line naming the action is printed and
\* main's result is 1.
C2_DomainErrorCaught ==
    /\ result = "raised" => raised.exc # "Error"
    /\ Printed("error") => result = "1" /\ stdout[Len(stdout)].action = args.action

\* C3: connect() comes before every other device call; nothing is called after
\* disconnect(); and when the action completed without error and main has
\* ended, disconnect() was called exactly once, as the last device call.
C3_ConnectFirstDisconnectLast ==
    /\ \A i \in 1..Len(calls) : calls[i] = "connect" <=> i = 1
    /\ \A i \in 1..Len(calls) : calls[i] = "disconnect" => i = Len(calls)
    /\ (completed /\ Ended) =>
          /\ Count(calls, "disconnect") = 1
          /\ calls[Len(calls)] = "disconnect"

C3_Witness ==
    /\ pc = "exited" /\ completed
    /\ calls = <<"connect", "get_meter_info", "get_readings", "disconnect">>

ExportDone == args.action = "dump" /\ args.dump.to_file /\ completed

RowsOf(rs) == [i \in 1..Len(rs) |-> FileRow(i, rs[i], unit)]

NotAfterT0(reading) == reading.timestamp <= t0

NotAfterItsTest(e) == e.r.timestamp <= e.now

\* C4 as stated: the export holds a row for exactly the readings whose
\* timestamp is not after the clock value read when the export was started.
C4_FilteredAgainstStart ==
    ExportDone => outfile.rows = RowsOf(SelectSeq(readings, NotAfterT0))

\* C4 amended: the future filter reads the clock once per reading, when that
\* reading comes up for writing.  Every reading is examined in order, and the
\* export holds a row for exactly those whose timestamp is not strictly after
\* the clock value read at their own examination.
C4_FilteredAgainstClockAtRow ==
    /\ \A i \in 1..Len(tested) : tested[i].r = readings[i]
    /\ outfile.rows = RowsOf([i \in 1..Len(SelectSeq(tested, NotAfterItsTest)) |->
                                 SelectSeq(tested, NotAfterItsTest)[i].r])
    /\ ExportDone => Len(tested) = Len(readings)

\* an export in which a reading later than the start value was written
C4_Witness ==
    /\ pc = "exited" /\ ExportDone
    /\ Len(outfile.rows) = 2
    /\ \E i \in 1..Len(tested) :
          /\ tested[i].r.timestamp > t0
          /\ tested[i].r.timestamp <= tested[i].now

DumpDone == args.action = "dump" /\ completed

\* get_readings() was called: main's unit is set
DumpBegun == args.action = "dump" /\ "get_readings" \in {calls[i] : i \in 1..Len(calls)}

\* get_readings() returned: the readings are filtered and sorted
GotReadings == args.action = "dump" /\ (outfile.open \/ completed)

PlainDump == args.action = "dump" /\ ~args.dump.with_ketone /\ args.dump.sort_by = "timestamp"

\* C5: without --with-ketone and sorted by timestamp, what dump emits is the
\* non-ketone readings of the device's sequence, each as often as the device
\* gave it, in non-decreasing timestamp order: the printed lines are theirs,
\* one each, and no row of the export is a ketone row.
C5_NonKetoneSortedByTimestamp ==
    (PlainDump /\ GotReadings) =>
        /\ \A r \in DeviceReadings :
              Count(readings, r) = IF IsKetone(r) THEN 0 ELSE Count(devReadings, r)
        /\ \A i \in 1..Len(readings) : readings[i] \in DeviceReadings
        /\ \A i, j \in 1..Len(readings) :
              i < j => readings[i].timestamp <= readings[j].timestamp
        /\ ~args.dump.to_file =>
              stdout = [i \in 1..Len(readings) |-> Line("csv", as_csv(readings[i], unit))]
        /\ \A i \in 1..Len(outfile.rows) : outfile.rows[i][3] # <<"3">>

C5_Witness ==
    /\ pc = "exited" /\ PlainDump /\ ~args.dump.to_file
    /\ devReadings = <<GlucoseReading(2, 10000, S_Sensor \o S_foo, CGM),
                       KetoneReading(1, 50, S_empty)>>
    /\ Len(stdout) = 1

Yes == {<<"y">>, <<"y", "e">>, <<"y", "e", "s">>}

\* the zero action has asked and the user has answered
Prompted ==
    /\ args.action = "zero" /\ env.driver
    /\ pc \in {"disconnect", "returned", "exited"}
    /\ raised.call \notin {"connect", "get_meter_info"}

\* C10: zero_log() is called, and the data log changed, only in a zero run
\* whose reply lower-cased is y, ye or yes; a zero run whose reply is anything
\* else ends with result 1 and the log intact.
C10_ZeroOnlyWhenConfirmed ==
    /\ ("zero_log" \in {calls[i] : i \in 1..Len(calls)} \/ datalog # "intact") =>
          args.action = "zero" /\ Lower(reply) \in Yes
    /\ (Prompted /\ Lower(reply) \notin Yes) =>
          result = "1" /\ datalog = "intact" /\ Printed("not zeroed")

C10_Witness ==
    /\ pc = "exited" /\ args.action = "zero"
    /\ reply = <<"Y", "E", "S">> /\ datalog = "zeroed"

C10_WitnessDeclined ==
    /\ pc = "exited" /\ Prompted
    /\ reply = <<"y", "e", "s", " ">> /\ result = "1" /\ datalog = "intact"

(***************************************************************************)
(* Properties of the reading data model.                                   *)
(***************************************************************************)
Called == row # <<>>

\* the record type the comment prefix convention gives a reading
TypeByConvention(reading) ==
    IF reading.measure_method.value = "CGM" /\ StartsWith(reading.comment, S_Sensor)
    THEN <<"0">>
    ELSE IF reading.measure_method.value = "CGM" /\ StartsWith(reading.comment, S_Scan)
    THEN <<"1">>
    ELSE IF reading.measure_method.value = "blood sample" /\ StartsWith(reading.comment, S_Blood)
    THEN <<"2">>
    ELSE <<"-", "1">>

\* C6: a reading built with a MeasurementMethod member has record type 0 for
\* CGM with a "(Sensor)" comment, 1 for CGM with "(Scan)", 2 for BLOOD_SAMPLE
\* with "(Blood)" and -1 otherwise; the CGM reading "(Sensor) foo" of
\* 100 mg/dL exported in mmol/L has type 0 and historic glucose 5.6.
C6_TypeCodeOfEnumMethod ==
    (Called /\ rd.measure_method.cls = "MeasurementMethod") =>
        /\ row[2] = TypeByConvention(rd)
        /\ (rd.measure_method = CGM /\ rd.comment = S_Sensor \o S_foo /\ rd.value = 10000
               /\ Unit(runit) = MMOL_L) =>
              row[2] = <<"0">> /\ row[3] = <<"5", ".", "6">>

\* the multiples of a tenth nearest to h hundredths
NearestTenths(h) ==
    {t \in {10 * (h \div 10), 10 * (h \div 10) + 10} : t - h <= 5 /\ h - t <= 5}

TypeCodes == {<<"-", "1">>, <<"0">>, <<"1">>, <<"2">>}

\* the field of the row that holds the glucose of record type code
GlucoseField(code) == CASE code = <<"0">> -> 3 [] code = <<"1">> -> 4 [] code = <<"2">> -> 12

\* C7: the Record Type field holds one of -1, 0, 1, 2; of the Historic, Scan
\* and Strip fields exactly the one of that type is filled, with the value in
\* the asked unit rounded to one decimal, and with type -1 none is; every
\* field other than Time, Record Type and these three is blank.
C7_OnlyTheTypedColumnFilled ==
    Called =>
        /\ Len(row) = 19
        /\ row[2] \in TypeCodes
        /\ \A code \in {<<"0">>, <<"1">>, <<"2">>} :
              IF row[2] = code
              THEN row[GlucoseField(code)] \in
                     {StrFloat(t) :
                        t \in NearestTenths(convert_glucose_unit(rd.value, MG_DL, runit))}
              ELSE row[GlucoseField(code)] = <<>>
        /\ \A i \in (5..11) \cup (13..19) : row[i] = <<>>
        /\ row[1] # <<>>

\* a blood-sample reading marked "(Blood)" whose Strip field alone is filled
C7_Witness ==
    /\ Called
    /\ row[2] = <<"2">>
    /\ rd.value = 10000 /\ Unit(runit) = MMOL_L
    /\ row[12] = <<"5", ".", "6">> /\ row[3] = <<>> /\ row[4] = <<>>

\* a blood-sample reading without the "(Blood)" mark: type -1, nothing filled
C7_WitnessUnrecognized ==
    /\ Called
    /\ rd.measure_method.value = "blood sample" /\ rd.comment = S_foo \o S_Sensor
    /\ row[2] = <<"-", "1">> /\ row[3] = <<>> /\ row[4] = <<>> /\ row[12] = <<>>

RoundTripDone == cv.step = 2

\* C8: whole mg/dL values come back exactly from mmol/L, and mmol/L values of
\* two decimals come back from mg/dL within 0.03 mmol/L.
C8_RoundTrip ==
    RoundTripDone =>
        /\ (Unit(cv.from) = MG_DL /\ Unit(cv.to) = MMOL_L) => cv.back = cv.x
        /\ (Unit(cv.from) = MMOL_L /\ Unit(cv.to) = MG_DL) =>
              cv.back - cv.x <= 3 /\ cv.x - cv.back <= 3

\* 0.25 mmol/L goes to 4 mg/dL (the tie 4.5 rounds to even) and comes back 0.22
C8_Witness ==
    /\ RoundTripDone
    /\ cv.from = MMOL_L /\ cv.to = MG_DL
    /\ cv.x = 25 /\ cv.there = 400 /\ cv.back = 22

\* 60 mg/dL goes to 3.33 mmol/L and comes back 60
C8_WitnessMgdl ==
    /\ RoundTripDone
    /\ cv.from = MG_DL /\ cv.to = MMOL_L
    /\ cv.x = 6000 /\ cv.there = 333 /\ cv.back = 6000

====
